---- MODULE Spec2Model ----
(***************************************************************************)
(* A model of the Fastify plugin of src/src/index.ts: the registration     *)
(* routine `plugin`, its shutdown (onClose) handler and the runtime type   *)
(* guard isCreateDebuggerOptions, together with the parts of the hook      *)
(* registry (hookable) and of the host (fastify) that the plugin drives.   *)
(***************************************************************************)
EXTENDS Integers, Sequences, FiniteSets, TLC

VARIABLES
  phase,        \* "unregistered" | "ready" | "closing" | "closed" | "failed" (registration threw) | "validator"
  opts,         \* the options structure the caller owns and passed to register
  hookable,     \* plugin closure: id of the registry made by createHooks (0: none)
  handleClose,  \* "return" | "throw": what close() of a debugger handle does when called
  debuggered,   \* plugin closure: the debugger handle: "undefined" | "open" |
                \* "closed" (its close() returned) | "failed" (its close() threw)
  created,      \* number of registries createHooks has made
  registries,   \* heap of registries: id -> [hooks, before, after]
  serverDecor,  \* server scope: property name -> registry id its getter returns
  requestDecor, \* request scope: property name -> (request -> registry id its getter returns)
  onCloseHooks, \* number of onClose handlers installed on the server
  doneCalled,   \* the registration-completion signal was given
  regError,     \* "none" | the error registration raised
  lateHook,     \* a hook was registered after shutdown completed
  dispatch,     \* the latest dispatch (callHook): running, done, or none yet
  nMutations,   \* times the caller has reassigned a field of opts
  registeredOpts, \* the field values of opts when the plugin was registered
  closeCalls,   \* the close callbacks the shutdown handler invoked, in order
  awaited,      \* "none" | "value" | "resolve" | "reject": what `await` waits on
  shutdownLog,  \* the steps of the shutdown handler, in order
  shutdownResult, \* "none" | "fulfilled" | the error the handler's promise rejected with
  removedHooks, \* the hook names that had callbacks when removeAllHooks ran
  vInput,       \* the value handed to the validator
  vResult       \* "none" | "true" | "false" | "TypeError": what the validator did

vars == << phase, opts, hookable, handleClose, debuggered, created, registries, serverDecor,
           requestDecor, onCloseHooks, doneCalled, regError, lateHook,
           dispatch, nMutations, registeredOpts, closeCalls,
           awaited, shutdownLog, shutdownResult, removedHooks, vInput, vResult >>

(***************************************************************************)
(* Bounds of the model.                                                    *)
(***************************************************************************)
MaxRegistries == 2
MaxRequests == 1
MaxCallbacks == 2
MaxMutations == 1
MaxArity == 2

(***************************************************************************)
(* JavaScript values, as far as the plugin looks at them: the typeof of a  *)
(* value, the declared parameter count (length) of a function, the         *)
(* identity and behaviour of a callback, the own fields of a structure.    *)
(***************************************************************************)
NoFields == [k \in {} |-> 0]

Prim(t) == [type |-> t, length |-> 0, id |-> "", does |-> "", fields |-> NoFields]

Undefined == Prim("undefined")

Null == [type |-> "object", length |-> 0, id |-> "null", does |-> "", fields |-> NoFields]

Fn(name, n, d) == [type |-> "function", length |-> n, id |-> name, does |-> d, fields |-> NoFields]

Obj(f) == [type |-> "object", length |-> 0, id |-> "", does |-> "", fields |-> f]

\* typeof value
TypeOf(value) == value.type

\* key in o: a TypeError when o is no object (a primitive, null or undefined)
HasKey(key, o) ==
  IF o = Null \/ TypeOf(o) \notin {"object", "function"} THEN "TypeError"
  ELSE IF key \in DOMAIN o.fields THEN "true" ELSE "false"

\* o.key: undefined when the key is absent
Get(o, key) == IF key \in DOMAIN o.fields THEN o.fields[key] ELSE Undefined

(***************************************************************************)
(* isCreateDebuggerOptions, check by check. The result is "true", "false"  *)
(* or "TypeError" (the `in` operator applied to a non-object).             *)
(***************************************************************************)
FieldCheck(o, key, t) ==
  LET present == HasKey(key, o)
  IN  IF present = "TypeError" THEN "TypeError"
      ELSE IF present = "true" /\ TypeOf(Get(o, key)) # t THEN "false"
      ELSE "pass"

FilterCheck(o) ==
  LET present == HasKey("filter", o)
      isString == TypeOf(Get(o, "filter")) = "string"
      isFunction == TypeOf(Get(o, "filter")) = "function" /\ Get(o, "filter").length <= 1
  IN  IF present = "TypeError" THEN "TypeError"
      ELSE IF present = "true" /\ ~isString /\ ~isFunction THEN "false"
      ELSE "pass"

\* The guard without its null test.
NotAnObjectNullPasses(value) == TypeOf(value) # "object"

NotAnObject(value) == TypeOf(value) # "object" \/ value = Null

isCreateDebuggerOptions(value) ==
  IF NotAnObject(value) THEN "false"
  ELSE IF FieldCheck(value, "tag", "string") # "pass" THEN FieldCheck(value, "tag", "string")
  ELSE IF FieldCheck(value, "inspect", "boolean") # "pass" THEN FieldCheck(value, "inspect", "boolean")
  ELSE IF FieldCheck(value, "group", "boolean") # "pass" THEN FieldCheck(value, "group", "boolean")
  ELSE IF FilterCheck(value) # "pass" THEN FilterCheck(value)
  ELSE "true"

(***************************************************************************)
(* The values the caller may put in the options structure.                 *)
(***************************************************************************)
CloseBehaviours == {"return", "throw", "resolve", "reject"}

CloseValues ==
  {Undefined, Prim("number"), Fn("c2", 0, "return")} \cup {Fn("c1", 0, d) : d \in CloseBehaviours}

BeforeValues == {Undefined, Fn("b1", 1, ""), Fn("b2", 1, "")}

AfterValues == {Undefined, Fn("a1", 1, ""), Fn("a2", 1, "")}

DebuggerOptionValues == {Undefined, Obj(NoFields)}

FieldValues(field) ==
  CASE field = "close" -> CloseValues
    [] field = "before" -> BeforeValues
    [] field = "after" -> AfterValues
    [] OTHER -> DebuggerOptionValues

OptionFields == {"close", "before", "after", "debuggerOptions"}

\* The option structures a server is registered and run with. The callbacks
\* c2, b2 and a2 are the ones a caller assigns later.
InitialOptions ==
  { o \in [close : CloseValues, before : BeforeValues, after : AfterValues,
           debuggerOptions : DebuggerOptionValues] :
      /\ o.close.id # "c2"
      /\ o.before.id # "b2"
      /\ o.after.id # "a2" }

\* The option structures registration alone is checked with: fields of the
\* wrong type too, and the debuggerOptions values of test/index.test.ts.
ValidDebuggerOptions ==
  Obj([tag |-> Prim("string"), inspect |-> Prim("boolean"),
       group |-> Prim("boolean"), filter |-> Prim("string")])

RegistrationDebuggerOptions ==
  {Undefined, Null, Prim("string"), Prim("number"), Obj(NoFields), ValidDebuggerOptions,
   Obj([tag |-> Prim("number")]), Obj([inspect |-> Prim("string")]),
   Obj([group |-> Prim("string")]), Obj([filter |-> Prim("number")]),
   Obj([filter |-> Fn("f", 0, "")]), Obj([tag |-> Prim("string"), inspect |-> Prim("boolean")])}

RegistrationOptions ==
  [close : CloseValues,
   before : BeforeValues \cup {Prim("string")},
   after : AfterValues \cup {Prim("string")},
   debuggerOptions : RegistrationDebuggerOptions]

\* The values the validator is checked with: every typeof, functions of every
\* declared parameter count up to MaxArity, and the structures whose fields
\* (tag, inspect, group, filter and one more) are absent or hold such a value.
FieldNames == {"tag", "inspect", "group", "filter", "extra"}

LeafValues ==
  {Prim(t) : t \in {"undefined", "string", "number", "boolean"}}
    \cup {Null, Obj(NoFields)} \cup {Fn("f", n, "") : n \in 0..MaxArity}

Structures == UNION { [present -> LeafValues] : present \in SUBSET FieldNames }

ValidatorInputs == LeafValues \cup {Obj(f) : f \in Structures}

(***************************************************************************)
(* The hook registry (hookable): hooks by name, and the global observers.  *)
(***************************************************************************)
HookNames == {"greet", "test:hook"}

\* A hook callback returns its prefix followed by its input.
Callbacks == {"hi-", "hooked-"}

Args == {"x"}

RegistryIds == 1..MaxRegistries

Requests == 1..MaxRequests

Scopes == {0} \cup Requests    \* 0: the server scope, r: the scope of request r

\* createHooks()
createHooks == [hooks |-> [n \in HookNames |-> << >>], before |-> << >>, after |-> << >>]

\* registry.hook(name, callback)
hook(r, name, callback) == [r EXCEPT !.hooks[name] = Append(@, callback)]

\* registry.beforeEach(f), registry.afterEach(f)
beforeEach(r, f) == [r EXCEPT !.before = Append(@, f)]

afterEach(r, f) == [r EXCEPT !.after = Append(@, f)]

\* registry.removeAllHooks(): the hooks go, the observers stay
removeAllHooks(r) == [r EXCEPT !.hooks = [n \in HookNames |-> << >>]]

Without(s, f) == SelectSeq(s, LAMBDA x : x # f)

\* createDebugger(registry, options): observes every dispatch until closed
createDebugger(r) == afterEach(beforeEach(r, "debugger"), "debugger")

\* the debugger handle's close(): its two observers unsubscribe
debuggerClose(r) ==
  [r EXCEPT !.before = Without(@, "debugger"), !.after = Without(@, "debugger")]

\* The events of calling each observer of `observers` with the event of hook `name`.
Observe(observers, kind, name) ==
  [i \in 1..Len(observers) |-> [kind |-> kind, by |-> observers[i], name |-> name]]

(***************************************************************************)
(* The plugin: registration.                                               *)
(***************************************************************************)
\* The property name both decorations use.
DecorationName == "hookable"

\* The getter of the server decoration and of the request decoration, both
\* closures over the plugin's `hookable` (h).
ServerGetter(h) == h

\* A request decoration bound to a registry of the request's own.
RequestGetterOwnRegistry(h, request) == ((h + request - 1) % MaxRegistries) + 1

RequestGetter(h, request) == h

\* if (typeof opts.before === 'function') hookable.beforeEach(opts.before)
WireBefore(r, o) == IF TypeOf(o.before) = "function" THEN beforeEach(r, o.before.id) ELSE r

\* The after callback subscribed as a pre-dispatch observer.
WireAfterAsBefore(r, o) == IF TypeOf(o.after) = "function" THEN beforeEach(r, o.after.id) ELSE r

\* if (typeof opts.after === 'function') hookable.afterEach(opts.after)
WireAfter(r, o) == IF TypeOf(o.after) = "function" THEN afterEach(r, o.after.id) ELSE r

\* if (isCreateDebuggerOptions(opts.debuggerOptions)) debuggered = createDebugger(...)
WireDebugger(r, o) ==
  IF isCreateDebuggerOptions(o.debuggerOptions) = "true" THEN createDebugger(r) ELSE r

\* A plugin that creates no debugger for a structure without fields.
DebuggerHandleUnlessEmpty(o) ==
  IF isCreateDebuggerOptions(o.debuggerOptions) = "true" /\ o.debuggerOptions.fields # NoFields
  THEN "open" ELSE "undefined"

DebuggerHandle(o) ==
  IF isCreateDebuggerOptions(o.debuggerOptions) = "true" THEN "open" ELSE "undefined"

\* A plugin that rejects the options the validator rejects.
PluginThrowsOnInvalid(o) ==
  IF o.debuggerOptions # Undefined /\ isCreateDebuggerOptions(o.debuggerOptions) # "true"
  THEN "TypeError" ELSE "none"

\* Whether the body of the plugin raises before it reaches done().
PluginThrows(o) ==
  IF isCreateDebuggerOptions(o.debuggerOptions) = "TypeError" THEN "TypeError" ELSE "none"

Register ==
  /\ phase = "unregistered"
  /\ created < MaxRegistries
  /\ LET h == created + 1
         wired == WireAfter(WireBefore(createHooks, opts), opts)
         err == PluginThrows(opts)
     IN  /\ created' = h
         /\ hookable' = h
         /\ serverDecor' = [n \in {DecorationName} |-> ServerGetter(h)]
         /\ requestDecor' =
              [n \in {DecorationName} |-> [q \in Requests |-> RequestGetter(h, q)]]
         /\ vInput' = opts.debuggerOptions
         /\ vResult' = isCreateDebuggerOptions(opts.debuggerOptions)
         /\ regError' = err
         /\ IF err # "none"
            THEN /\ registries' = [registries EXCEPT ![h] = wired]
                 /\ phase' = "failed"
                 /\ UNCHANGED << debuggered, onCloseHooks, doneCalled >>
            ELSE /\ registries' = [registries EXCEPT ![h] = WireDebugger(wired, opts)]
                 /\ debuggered' = DebuggerHandle(opts)
                 /\ onCloseHooks' = onCloseHooks + 1
                 /\ doneCalled' = TRUE
                 /\ phase' = "ready"
  /\ registeredOpts' = opts
  /\ UNCHANGED << opts, handleClose, lateHook, dispatch, nMutations,
                  closeCalls, awaited, shutdownLog, shutdownResult, removedHooks >>

(***************************************************************************)
(* The caller: reading the decoration, registering and calling hooks,      *)
(* reassigning a field of its options structure.                           *)
(***************************************************************************)
Live == phase \in {"ready", "closing", "closed"}

\* serve.hookable (scope 0), request.hookable (scope r)
ScopeRegistry(scope) ==
  IF scope = 0 THEN serverDecor[DecorationName] ELSE requestDecor[DecorationName][scope]

\* The number of callbacks a registry holds.
HookCount(r) == Len(r.hooks["greet"]) + Len(r.hooks["test:hook"])

HookRegister(scope, name, callback) ==
  /\ Live
  /\ LET id == ScopeRegistry(scope)
     IN  /\ HookCount(registries[id]) < MaxCallbacks
         /\ registries' = [registries EXCEPT ![id] = hook(@, name, callback)]
  /\ lateHook' = (lateHook \/ phase = "closed")
  /\ UNCHANGED << phase, opts, hookable, handleClose, debuggered, created, serverDecor,
                  requestDecor, onCloseHooks, doneCalled, regError, dispatch,
                  nMutations, registeredOpts, closeCalls, awaited,
                  shutdownLog, shutdownResult, removedHooks, vInput, vResult >>

NoDispatch ==
  [status |-> "none", name |-> "", arg |-> "", reg |-> 0, todo |-> << >>,
   result |-> "undefined", events |-> << >>, startedIn |-> "", late |-> FALSE]

\* callHook(name, arg): the observers of `before` run, the callbacks are snapshotted
CallHookStart(scope, name, arg) ==
  /\ Live
  /\ dispatch.status # "running"
  /\ LET id == ScopeRegistry(scope)
         r == registries[id]
     IN  dispatch' = [status |-> "running", name |-> name, arg |-> arg, reg |-> id,
                      todo |-> r.hooks[name],
                      result |-> "undefined",
                      events |-> Observe(r.before, "before", name),
                      startedIn |-> phase, late |-> lateHook]
  /\ UNCHANGED << phase, opts, hookable, handleClose, debuggered, created, registries, serverDecor,
                  requestDecor, onCloseHooks, doneCalled, regError, lateHook, nMutations, registeredOpts, closeCalls, awaited,
                  shutdownLog, shutdownResult, removedHooks, vInput, vResult >>

\* the next callback of the snapshot runs; the dispatch's result is the last one's
CallHookStep ==
  /\ dispatch.status = "running"
  /\ dispatch.todo # << >>
  /\ LET callback == Head(dispatch.todo)
     IN  dispatch' = [dispatch EXCEPT
                        !.todo = Tail(@),
                        !.result = callback \o dispatch.arg,
                        !.events = Append(@, [kind |-> "callback", by |-> callback,
                                              name |-> dispatch.name])]
  /\ UNCHANGED << phase, opts, hookable, handleClose, debuggered, created, registries, serverDecor,
                  requestDecor, onCloseHooks, doneCalled, regError, lateHook, nMutations, registeredOpts, closeCalls,
                  awaited, shutdownLog, shutdownResult, removedHooks, vInput, vResult >>

\* every callback has completed: the observers of `after` run
CallHookFinish ==
  /\ dispatch.status = "running"
  /\ dispatch.todo = << >>
  /\ dispatch' = [dispatch EXCEPT
                    !.status = "done",
                    !.events = @ \o Observe(registries[dispatch.reg].after, "after",
                                            dispatch.name)]
  /\ UNCHANGED << phase, opts, hookable, handleClose, debuggered, created, registries, serverDecor,
                  requestDecor, onCloseHooks, doneCalled, regError, lateHook, nMutations, registeredOpts, closeCalls,
                  awaited, shutdownLog, shutdownResult, removedHooks, vInput, vResult >>

\* opts.<field> = value, by the code that owns the options structure
MutateOptions(field, value) ==
  /\ Live
  /\ nMutations < MaxMutations
  /\ value # opts[field]
  /\ opts' = [opts EXCEPT ![field] = value]
  /\ nMutations' = nMutations + 1
  /\ UNCHANGED << phase, hookable, handleClose, debuggered, created, registries, serverDecor,
                  requestDecor, onCloseHooks, doneCalled, regError, lateHook, dispatch, registeredOpts, closeCalls,
                  awaited, shutdownLog, shutdownResult, removedHooks, vInput, vResult >>

(***************************************************************************)
(* The plugin: the onClose handler.                                        *)
(*   try { await opts.close?.() }                                          *)
(*   finally { debuggered?.close(); hookable.removeAllHooks() }            *)
(***************************************************************************)
\* The close callback as it was when the plugin registered.
ShutdownCloseCaptured == registeredOpts.close

\* The value `opts.close?.()` calls: the field as it is when the handler runs.
ShutdownClose == opts.close

\* A finally block that closes the debugger and leaves the hooks.
CleanupRegistryKeepsHooks(r, d) == IF d = "open" THEN debuggerClose(r) ELSE r

\* The finally block's effect on the registry, given the debugger handle d.
CleanupRegistry(r, d) == removeAllHooks(IF d = "open" THEN debuggerClose(r) ELSE r)

\* The finally block with its two statements in the other order.
CleanupStepsHooksFirst(d) == << "removeAllHooks" >> \o (IF d = "open" THEN << "dispose" >> ELSE << >>)

\* The finally block's steps, in order.
CleanupSteps(d) == (IF d = "open" THEN << "dispose" >> ELSE << >>) \o << "removeAllHooks" >>

\* A handler that catches what close raised.
HandlerOutcomeSwallowed(err) == "fulfilled"

\* How the handler's promise settles once the finally block has run, given the
\* error the try block ended with ("none": it completed).
HandlerOutcome(err) == IF err = "none" THEN "fulfilled" ELSE err

\* debuggered?.close() raises: there is a handle (d) and its close() throws.
DisposalThrows(d) == d = "open" /\ handleClose = "throw"

\* A finally block whose exception gives way to the one already pending.
FinallyOutcomePendingWins(err) == IF err = "none" THEN "disposeThrew" ELSE err

\* How the handler's promise settles when the finally block raised: nothing
\* catches it, and the error the try block ended with (err) is dropped.
FinallyOutcome(err) == "disposeThrew"

\* The registry a close() that threw leaves: it raised before or after its
\* observers unsubscribed.
DisposalLeaves(r) == {r, debuggerClose(r)}

\* The finally block, then the handler's promise settles. When
\* debuggered?.close() throws, the block ends there: removeAllHooks() is not
\* reached.
Finally(err, log) ==
  /\ IF DisposalThrows(debuggered)
     THEN /\ \E r \in DisposalLeaves(registries[hookable]) :
               registries' = [registries EXCEPT ![hookable] = r]
          /\ removedHooks' = removedHooks
          /\ debuggered' = "failed"
          /\ shutdownLog' = Append(log, "dispose")
          /\ shutdownResult' = FinallyOutcome(err)
     ELSE /\ registries' = [registries EXCEPT ![hookable] = CleanupRegistry(@, debuggered)]
          /\ removedHooks' = {n \in HookNames : registries[hookable].hooks[n] # << >>}
          /\ debuggered' = IF debuggered = "open" THEN "closed" ELSE debuggered
          /\ shutdownLog' = log \o CleanupSteps(debuggered)
          /\ shutdownResult' = HandlerOutcome(err)
  /\ awaited' = "none"
  /\ phase' = "closed"

\* The host fires onClose: the handler runs up to its await, or, when calling
\* close throws (or close is neither absent nor callable), through its finally
\* block.
OnClose ==
  /\ phase = "ready"
  /\ onCloseHooks > 0
  /\ LET c == ShutdownClose
     IN  \/ /\ TypeOf(c) = "undefined"
            /\ awaited' = "value"
            /\ phase' = "closing"
            /\ UNCHANGED << closeCalls, shutdownLog, shutdownResult, removedHooks,
                            registries, debuggered >>
         \/ /\ TypeOf(c) \notin {"undefined", "function"}
            /\ Finally("TypeError", shutdownLog)
            /\ UNCHANGED closeCalls
         \/ /\ TypeOf(c) = "function"
            /\ c.does = "throw"
            /\ closeCalls' = Append(closeCalls, c.id)
            /\ Finally("closeThrew", Append(shutdownLog, "close"))
         \/ /\ TypeOf(c) = "function"
            /\ c.does # "throw"
            /\ closeCalls' = Append(closeCalls, c.id)
            /\ shutdownLog' = Append(shutdownLog, "close")
            /\ awaited' = IF c.does = "return" THEN "value" ELSE c.does
            /\ phase' = "closing"
            /\ UNCHANGED << shutdownResult, removedHooks, registries, debuggered >>
  /\ UNCHANGED << opts, hookable, handleClose, created, serverDecor, requestDecor, onCloseHooks,
                  doneCalled, regError, lateHook, dispatch, nMutations, registeredOpts, vInput, vResult >>

\* What was awaited settles and the handler resumes: the finally block runs.
OnCloseResume ==
  /\ phase = "closing"
  /\ Finally(IF awaited = "reject" THEN "closeRejected" ELSE "none", shutdownLog)
  /\ UNCHANGED << opts, hookable, handleClose, created, serverDecor, requestDecor, onCloseHooks,
                  doneCalled, regError, lateHook, dispatch, nMutations, registeredOpts, closeCalls, vInput, vResult >>

(***************************************************************************)
(* The validator on its own: isCreateDebuggerOptions applied to a value.   *)
(***************************************************************************)
Validate ==
  /\ phase = "validator"
  /\ vResult = "none"
  /\ vResult' = isCreateDebuggerOptions(vInput)
  /\ UNCHANGED << phase, opts, hookable, handleClose, debuggered, created, registries, serverDecor,
                  requestDecor, onCloseHooks, doneCalled, regError, lateHook,
                  dispatch, nMutations, registeredOpts, closeCalls,
                  awaited, shutdownLog, shutdownResult, removedHooks, vInput >>

(***************************************************************************)
(* The specifications.                                                     *)
(***************************************************************************)
\* The state before the host calls the plugin with the options o, where
\* close() of a debugger handle does d.
FreshWith(o, d) ==
  /\ phase = "unregistered"
  /\ opts = o
  /\ hookable = 0
  /\ handleClose = d
  /\ debuggered = "undefined"
  /\ created = 0
  /\ registries = [i \in RegistryIds |-> createHooks]
  /\ serverDecor = NoFields
  /\ requestDecor = NoFields
  /\ onCloseHooks = 0
  /\ doneCalled = FALSE
  /\ regError = "none"
  /\ lateHook = FALSE
  /\ dispatch = NoDispatch
  /\ nMutations = 0
  /\ registeredOpts = o
  /\ closeCalls = << >>
  /\ awaited = "none"
  /\ shutdownLog = << >>
  /\ shutdownResult = "none"
  /\ removedHooks = {}
  /\ vInput = Undefined
  /\ vResult = "none"

\* The same with the debugger handle of hookable, whose close() returns.
Fresh(o) == FreshWith(o, "return")

\* A server from registration to shutdown, its hooks registered and called
\* through both scopes.
Init == \E o \in InitialOptions : Fresh(o)

Next ==
  \/ Register
  \/ \E scope \in Scopes, name \in HookNames, callback \in Callbacks :
       HookRegister(scope, name, callback)
  \/ \E scope \in Scopes, name \in HookNames, arg \in Args :
       CallHookStart(scope, name, arg)
  \/ CallHookStep
  \/ CallHookFinish
  \/ OnClose
  \/ OnCloseResume

Spec == Init /\ [][Next]_vars

\* Registration alone, over every shape of the options.
InitRegistration == \E o \in RegistrationOptions : Fresh(o)

NextRegistration == Register

SpecRegistration == InitRegistration /\ [][NextRegistration]_vars

\* A server whose caller reassigns fields of the options structure it
\* registered with; dispatches reach the observers, no hook is registered.
InitMutable == \E o \in InitialOptions : Fresh(o)

NextMutable ==
  \/ Register
  \/ \E field \in OptionFields : \E value \in FieldValues(field) :
       MutateOptions(field, value)
  \/ \E scope \in Scopes, name \in HookNames, arg \in Args :
       CallHookStart(scope, name, arg)
  \/ CallHookFinish
  \/ OnClose
  \/ OnCloseResume

SpecMutable == InitMutable /\ [][NextMutable]_vars

\* A server from registration to shutdown whose debugger handle may fail to
\* close; hooks are registered, none is called.
HandleCloseBehaviours == {"return", "throw"}

InitDisposal == \E o \in InitialOptions : \E d \in HandleCloseBehaviours : FreshWith(o, d)

NextDisposal ==
  \/ Register
  \/ \E scope \in Scopes, name \in HookNames, callback \in Callbacks :
       HookRegister(scope, name, callback)
  \/ OnClose
  \/ OnCloseResume

SpecDisposal == InitDisposal /\ [][NextDisposal]_vars

\* The validator applied to one value.
InitValidator ==
  /\ phase = "validator"
  /\ opts = [close |-> Undefined, before |-> Undefined, after |-> Undefined,
             debuggerOptions |-> Undefined]
  /\ hookable = 0
  /\ handleClose = "return"
  /\ debuggered = "undefined"
  /\ created = 0
  /\ registries = [i \in RegistryIds |-> createHooks]
  /\ serverDecor = NoFields
  /\ requestDecor = NoFields
  /\ onCloseHooks = 0
  /\ doneCalled = FALSE
  /\ regError = "none"
  /\ lateHook = FALSE
  /\ dispatch = NoDispatch
  /\ nMutations = 0
  /\ registeredOpts = opts
  /\ closeCalls = << >>
  /\ awaited = "none"
  /\ shutdownLog = << >>
  /\ shutdownResult = "none"
  /\ removedHooks = {}
  /\ vInput \in ValidatorInputs
  /\ vResult = "none"

NextValidator == Validate

SpecValidator == InitValidator /\ [][NextValidator]_vars

(***************************************************************************)
(* Properties.                                                             *)
(***************************************************************************)
Registered == phase \in {"ready", "closing", "closed"}

\* The events of a dispatch that are of `kind`, in order.
EventsOf(d, kind) == SelectSeq(d.events, LAMBDA e : e.kind = kind)

\* The positions in a dispatch's events of the calls of observer `f` as `kind`.
CallsOf(d, kind, f) ==
  {i \in DOMAIN d.events : d.events[i].kind = kind /\ d.events[i].by = f}

\* C1: once the plugin has registered, and through every later hook
\* registration, dispatch and the shutdown, the server decoration and every
\* request decoration return the one registry createHooks made at registration:
\* one registry exists, both scopes read the same registry contents, and no hook
\* or dispatch ever lands in another registry.
OneSharedRegistry ==
  Registered =>
    /\ created = 1
    /\ hookable = 1
    /\ \A scope \in Scopes : ScopeRegistry(scope) = hookable
    /\ \A s1, s2 \in Scopes : registries[ScopeRegistry(s1)] = registries[ScopeRegistry(s2)]
    /\ \A i \in RegistryIds \ {hookable} : registries[i] = createHooks
    /\ dispatch.status # "none" => dispatch.reg = hookable

\* After shutdown a hook registered late is read through the request scope and
\* through the server scope, and a dispatch has run a callback.
OneSharedRegistryWitness ==
  /\ phase = "closed"
  /\ lateHook
  /\ HookCount(registries[ScopeRegistry(1)]) > 0
  /\ registries[ScopeRegistry(0)] = registries[ScopeRegistry(1)]
  /\ dispatch.status = "done"
  /\ EventsOf(dispatch, "callback") # << >>

\* C2: with `before` (`after`) a callable at registration, every dispatch calls
\* it exactly once with the dispatched hook's name, before every callback of the
\* hook (after all of them, and not while the dispatch still runs), with only
\* observers between it and the callbacks; the dispatch returns what its last
\* callback returned: "hi-x" for the callback "hi-" + input called with "x".
ObserversAroundDispatch ==
  LET d == dispatch
      b == registeredOpts.before
      a == registeredOpts.after
      callbacks == {i \in DOMAIN d.events : d.events[i].kind = "callback"}
      ran == EventsOf(d, "callback")
  IN  d.status # "none" =>
        /\ TypeOf(b) = "function" =>
             /\ Cardinality(CallsOf(d, "before", b.id)) = 1
             /\ \A i \in CallsOf(d, "before", b.id) :
                  /\ d.events[i].name = d.name
                  /\ \A j \in callbacks : i < j
                  /\ \A j \in DOMAIN d.events : j < i => d.events[j].kind = "before"
             /\ CallsOf(d, "after", b.id) = {}
        /\ TypeOf(a) = "function" =>
             /\ Cardinality(CallsOf(d, "after", a.id)) = (IF d.status = "done" THEN 1 ELSE 0)
             /\ \A i \in CallsOf(d, "after", a.id) :
                  /\ d.events[i].name = d.name
                  /\ d.todo = << >>
                  /\ \A j \in callbacks : j < i
                  /\ \A j \in DOMAIN d.events : j > i => d.events[j].kind = "after"
             /\ CallsOf(d, "before", a.id) = {}
        /\ d.status = "done" =>
             d.result = IF ran = << >> THEN "undefined" ELSE ran[Len(ran)].by \o d.arg
        /\ (d.status = "done" /\ d.arg = "x" /\ ran # << >> /\ ran[Len(ran)].by = "hi-")
             => d.result = "hi-x"

\* The hook greet, with two callbacks, was called with "x" on a server registered
\* with before, after and a debugger: it returned "hi-x".
ObserversAroundDispatchWitness ==
  /\ dispatch.status = "done"
  /\ dispatch.name = "greet"
  /\ dispatch.result = "hi-x"
  /\ TypeOf(registeredOpts.before) = "function"
  /\ TypeOf(registeredOpts.after) = "function"
  /\ Len(EventsOf(dispatch, "callback")) = 2
  /\ Len(dispatch.events) = 6

\* What section 4.2 of the specification asks of a value.
IsStructure(value) == value.type = "object" /\ value # Null

Present(value, key) == key \in DOMAIN value.fields

AcceptableOptions(value) ==
  /\ IsStructure(value)
  /\ Present(value, "tag") => value.fields["tag"].type = "string"
  /\ Present(value, "inspect") => value.fields["inspect"].type = "boolean"
  /\ Present(value, "group") => value.fields["group"].type = "boolean"
  /\ Present(value, "filter") =>
       \/ value.fields["filter"].type = "string"
       \/ value.fields["filter"].type = "function" /\ value.fields["filter"].length <= 1

\* The structure `value` without its fields outside {tag, inspect, group, filter}.
KnownFieldsOnly(value) ==
  [value EXCEPT !.fields =
     [k \in DOMAIN value.fields \cap {"tag", "inspect", "group", "filter"} |-> value.fields[k]]]

\* C3: the validator never raises, and it returns true exactly for the non-null
\* structures whose tag, inspect, group and filter, when present, are a string, a
\* boolean, a boolean, and a string or a callable of at most one parameter; the
\* other fields do not change its result, and the empty structure is accepted.
ValidatorMatchesContract ==
  vResult # "none" =>
    /\ vResult \in {"true", "false"}
    /\ (vResult = "true") <=> AcceptableOptions(vInput)
    /\ IsStructure(vInput) => isCreateDebuggerOptions(KnownFieldsOnly(vInput)) = vResult
    /\ vInput = Obj(NoFields) => vResult = "true"
    /\ (~IsStructure(vInput)) => vResult = "false"

\* A structure with a one-parameter filter and a field of no concern was accepted.
ValidatorMatchesContractWitness ==
  /\ vResult = "true"
  /\ Present(vInput, "extra")
  /\ Present(vInput, "filter")
  /\ vInput.fields["filter"].type = "function"
  /\ vInput.fields["filter"].length = 1
  /\ Present(vInput, "tag")

\* The callbacks the shutdown handler has to have invoked by now, when the
\* close field held c as the handler started.
ExpectedCloseCalls(c) ==
  IF phase \in {"closing", "closed"} /\ TypeOf(c) = "function" THEN << c.id >> ELSE << >>

NoHooks(r) == \A n \in HookNames : r.hooks[n] = << >>

\* C4: the close callback, if supplied, is invoked exactly once, on shutdown and
\* not before; when shutdown has completed the registry holds no hook that was
\* registered before, and a dispatch started after it runs no callback (as long
\* as no hook is registered anew after shutdown).
ShutdownClearsHooks ==
  /\ closeCalls = ExpectedCloseCalls(registeredOpts.close)
  /\ (phase = "closed" /\ ~lateHook) => NoHooks(registries[hookable])
  /\ (dispatch.startedIn = "closed" /\ ~dispatch.late) =>
       /\ dispatch.todo = << >>
       /\ EventsOf(dispatch, "callback") = << >>
       /\ dispatch.status = "done" => dispatch.result = "undefined"

\* Both hook names had callbacks when the server shut down, close ran once, and
\* a later dispatch of greet found no callback.
ShutdownClearsHooksWitness ==
  /\ phase = "closed"
  /\ closeCalls = << "c1" >>
  /\ removedHooks = HookNames
  /\ dispatch.status = "done"
  /\ dispatch.startedIn = "closed"
  /\ dispatch.name = "greet"
  /\ ~dispatch.late
  /\ dispatch.result = "undefined"

CloseFails == TypeOf(registeredOpts.close) = "function" /\ registeredOpts.close.does \in {"throw", "reject"}

\* C5: when close throws or rejects, the debugger handle, if one was created, is
\* disposed and the hooks are removed all the same, and the shutdown caller gets
\* the failure: never before that cleanup has run, and always once it has.
CloseFailureKeepsCleanup ==
  CloseFails =>
    /\ phase = "closed" =>
         /\ shutdownResult =
              (IF registeredOpts.close.does = "throw" THEN "closeThrew" ELSE "closeRejected")
         /\ debuggered = (IF DebuggerHandle(registeredOpts) = "open" THEN "closed" ELSE "undefined")
         /\ "debugger" \notin {registries[hookable].before[i] : i \in DOMAIN registries[hookable].before}
         /\ ~lateHook => NoHooks(registries[hookable])
    /\ shutdownResult # "none" =>
         /\ phase = "closed"
         /\ shutdownLog # << >>
         /\ shutdownLog[Len(shutdownLog)] = "removeAllHooks"
         /\ DebuggerHandle(registeredOpts) = "open" =>
              \E i \in DOMAIN shutdownLog : shutdownLog[i] = "dispose"
    /\ phase # "closed" => shutdownResult = "none"

\* close rejected: the debugger was disposed, registered hooks were removed and
\* the shutdown caller got the rejection.
CloseFailureKeepsCleanupWitness ==
  /\ phase = "closed"
  /\ registeredOpts.close.does = "reject"
  /\ shutdownResult = "closeRejected"
  /\ debuggered = "closed"
  /\ removedHooks # {}
  /\ NoHooks(registries[hookable])

\* The debuggerOptions values that are present and fail the validator.
InvalidDebuggerOptions ==
  {Null, Prim("string"), Prim("number"), Obj([tag |-> Prim("number")]),
   Obj([inspect |-> Prim("string")]), Obj([group |-> Prim("string")]),
   Obj([filter |-> Prim("number")])}

Observers(r) == {r.before[i] : i \in DOMAIN r.before} \cup {r.after[i] : i \in DOMAIN r.after}

\* C6: registering with a debuggerOptions that is present and fails the validator
\* raises nothing: done is signalled, the registry is decorated on both scopes,
\* the shutdown handler is installed, and no debugger handle is created.
InvalidDebuggerOptionsIgnored ==
  (phase # "unregistered" /\ registeredOpts.debuggerOptions \in InvalidDebuggerOptions) =>
    /\ phase = "ready"
    /\ regError = "none"
    /\ doneCalled
    /\ DecorationName \in DOMAIN serverDecor
    /\ DecorationName \in DOMAIN requestDecor
    /\ serverDecor[DecorationName] = hookable
    /\ \A q \in Requests : requestDecor[DecorationName][q] = hookable
    /\ onCloseHooks = 1
    /\ debuggered = "undefined"
    /\ "debugger" \notin Observers(registries[hookable])

\* The plugin registered with debuggerOptions { tag: 123 }.
InvalidDebuggerOptionsIgnoredWitness ==
  /\ phase = "ready"
  /\ registeredOpts.debuggerOptions = Obj([tag |-> Prim("number")])
  /\ doneCalled
  /\ debuggered = "undefined"
  /\ vResult = "false"

\* C7, as stated: with debuggerOptions absent or the empty structure, no debugger
\* handle is created.
NoHandleForAbsentOrEmpty ==
  (phase # "unregistered" /\ registeredOpts.debuggerOptions \in {Undefined, Obj(NoFields)}) =>
    debuggered = "undefined"

\* C7, amended: with debuggerOptions absent no debugger handle is created and none
\* is disposed at shutdown; the empty structure passes the validator, so a handle
\* is created at registration and disposed at shutdown; neither raises anything.
HandleForEmptyNotForAbsent ==
  /\ (phase # "unregistered" /\ registeredOpts.debuggerOptions = Undefined) =>
       /\ debuggered = "undefined"
       /\ "debugger" \notin Observers(registries[hookable])
       /\ \A i \in DOMAIN shutdownLog : shutdownLog[i] # "dispose"
       /\ regError = "none"
       /\ doneCalled
  /\ (phase # "unregistered" /\ registeredOpts.debuggerOptions = Obj(NoFields)) =>
       /\ debuggered = (IF phase = "closed" THEN "closed" ELSE "open")
       /\ ("debugger" \in Observers(registries[hookable])) <=> (phase # "closed")
       /\ (\E i \in DOMAIN shutdownLog : shutdownLog[i] = "dispose") <=> (phase = "closed")
       /\ regError = "none"
       /\ doneCalled

\* A server registered with debuggerOptions {} has shut down and disposed of the
\* debugger it had created.
HandleForEmptyNotForAbsentWitness ==
  /\ phase = "closed"
  /\ registeredOpts.debuggerOptions = Obj(NoFields)
  /\ debuggered = "closed"
  /\ shutdownLog = << "dispose", "removeAllHooks" >>

\* C8: after registration the registry is exposed as `hookly` on the server and
\* on every request.
DecoratedAsHookly ==
  Registered =>
    /\ "hookly" \in DOMAIN serverDecor
    /\ "hookly" \in DOMAIN requestDecor

IsPrefix(s, t) == Len(s) <= Len(t) /\ \A i \in DOMAIN s : s[i] = t[i]

\* The steps of a whole shutdown, for the options the plugin registered with.
ClosePart == IF TypeOf(registeredOpts.close) = "function" THEN << "close" >> ELSE << >>

WholeShutdown ==
  ClosePart \o (IF DebuggerHandle(registeredOpts) = "open" THEN << "dispose" >> ELSE << >>)
            \o << "removeAllHooks" >>

ShutdownOrderState ==
  /\ phase \in {"unregistered", "ready"} => shutdownLog = << >>
  /\ phase = "closing" =>
       /\ shutdownLog = ClosePart
       /\ debuggered = DebuggerHandle(registeredOpts)
       /\ debuggered = "open" => "debugger" \in Observers(registries[hookable])
       /\ removedHooks = {}
       /\ shutdownResult = "none"
  /\ phase = "closed" => shutdownLog = WholeShutdown
  /\ (dispatch.startedIn = "closing" /\ DebuggerHandle(registeredOpts) = "open") =>
       CallsOf(dispatch, "before", "debugger") # {}

ShutdownOrderStep ==
  /\ (Registered /\ phase' # "closed") =>
       \A n \in HookNames :
         IsPrefix(registries[hookable].hooks[n], registries'[hookable].hooks[n])
  /\ (phase = "closing" /\ phase' = "closing" /\ dispatch.status # "running"
        /\ dispatch'.status = "running") =>
       dispatch'.todo = registries[hookable].hooks[dispatch'.name]

\* C9: a shutdown calls close, resumes when what it awaited has settled, then
\* disposes of the debugger handle (if any), then removes the hooks, in that
\* order; while close is pending the handle is not disposed and no hook is
\* removed, so a dispatch started then gets every registered callback; and no
\* step before the end of the shutdown removes a hook.
ShutdownOrder == [](ShutdownOrderState) /\ [][ShutdownOrderStep]_vars

\* While an asynchronous close was pending, a dispatch ran to its end and
\* reached a callback, with the debugger still open.
ShutdownOrderWitness ==
  /\ phase = "closing"
  /\ awaited = "resolve"
  /\ debuggered = "open"
  /\ dispatch.startedIn = "closing"
  /\ dispatch.status = "done"
  /\ EventsOf(dispatch, "callback") # << >>

\* The observers and the debugger handle are those of the options as registered.
WiredAsRegistered ==
  Registered =>
    /\ Without(registries[hookable].before, "debugger") =
         (IF TypeOf(registeredOpts.before) = "function"
          THEN << registeredOpts.before.id >> ELSE << >>)
    /\ Without(registries[hookable].after, "debugger") =
         (IF TypeOf(registeredOpts.after) = "function"
          THEN << registeredOpts.after.id >> ELSE << >>)
    /\ (debuggered # "undefined") <=> (DebuggerHandle(registeredOpts) = "open")
    /\ \A i \in DOMAIN dispatch.events :
         dispatch.events[i].by \in
           {"debugger", registeredOpts.before.id, registeredOpts.after.id}

\* C10, as stated: every field is read at registration, so reassigning a field
\* later changes neither the observers, nor the debugger, nor the callback that
\* runs at shutdown.
OptionsReadAtRegistration ==
  /\ WiredAsRegistered
  /\ closeCalls = ExpectedCloseCalls(registeredOpts.close)

OptionsReadStep ==
  /\ opts' # opts => (nMutations' = nMutations + 1 /\ phase' = phase)
  /\ closeCalls' # closeCalls => phase = "ready"
  /\ (phase = "ready" /\ phase' # "ready") =>
       closeCalls' = (IF TypeOf(opts.close) = "function" THEN << opts.close.id >> ELSE << >>)

\* C10, amended: before, after and debuggerOptions are read at registration only,
\* so reassigning them later changes nothing; close is read when the shutdown
\* handler starts, so the callback that runs at shutdown is the one the options
\* structure holds then; the plugin never writes to the options structure.
OptionsReadWhenUsed == [](WiredAsRegistered) /\ [][OptionsReadStep]_vars

\* The plugin registered with close c1, the caller then assigned c2, and the
\* shutdown ran c2.
OptionsReadWhenUsedWitness ==
  /\ phase = "closed"
  /\ nMutations = 1
  /\ registeredOpts.close.id = "c1"
  /\ closeCalls = << "c2" >>

\* The error the try block of the shutdown handler ends with when the close
\* field holds c ("none": it completes).
PendingCloseFailure(c) ==
  IF TypeOf(c) = "undefined" THEN "none"
  ELSE IF TypeOf(c) # "function" THEN "TypeError"
  ELSE IF c.does = "throw" THEN "closeThrew"
  ELSE IF c.does = "reject" THEN "closeRejected"
  ELSE "none"

\* The server was registered with a debugger handle whose close() throws.
DisposalWillFail == DebuggerHandle(registeredOpts) = "open" /\ handleClose = "throw"

\* C11: the shutdown handler does not catch a failure of its cleanup block. When
\* disposing the debugger handle fails, the shutdown caller gets that failure
\* and no other outcome, whether close completed or had failed (the failure of
\* close is lost); the caller gets it only in that case, and otherwise gets what
\* the try block ended with.
DisposalFailureWins ==
  /\ (phase = "closed" /\ DisposalWillFail) =>
       /\ debuggered = "failed"
       /\ shutdownResult = "disposeThrew"
  /\ (phase = "closed" /\ ~DisposalWillFail) =>
       /\ debuggered # "failed"
       /\ shutdownResult = HandlerOutcome(PendingCloseFailure(registeredOpts.close))
  /\ phase # "closed" => shutdownResult = "none" /\ debuggered # "failed"

\* close was called and rejected, then disposing the handle threw: the shutdown
\* caller got the failure of the disposal, not the rejection.
DisposalFailureWinsWitness ==
  /\ phase = "closed"
  /\ closeCalls = << "c1" >>
  /\ PendingCloseFailure(registeredOpts.close) = "closeRejected"
  /\ shutdownLog = << "close", "dispose" >>
  /\ debuggered = "failed"
  /\ shutdownResult = "disposeThrew"

====
